---- MODULE Spec2Model ----
(***************************************************************************)
(* Voice Mimic AI: the generateSpeech streaming exchange (services/gemini) *)
(* and the App component's generation / playback controller, with the      *)
(* audio utilities (utils/audio) they call.                                *)
(*                                                                         *)
(* Bytes are integers 0..255.  A base64 text is a sequence of character    *)
(* codes: 0..63 are the sextet values of the base64 alphabet, PadChar is   *)
(* '=', WsChar is an ASCII whitespace character and BadChar is any         *)
(* character outside the alphabet.                                         *)
(***************************************************************************)
EXTENDS Integers, Sequences, FiniteSets, TLC

\* ---------------------------------------------------------------- bounds
MaxChunks == 2
MaxText == 2
MaxParts == 2
MaxSources == 3
MaxBytes == 4
MaxChunkBytes == 3
MaxChannels == 2
MaxSample == 10
MaxFrames == 2

\* ------------------------------------------------------- base64 (atob/btoa)
PadChar == 64
WsChar == 65
BadChar == 66

Byte == 0 .. 255

RECURSIVE btoaFrom(_, _)
\* btoa: three bytes give four sextets; a tail of one byte gives two sextets
\* and "==", a tail of two bytes gives three sextets and "=".
btoaFrom(b, i) ==
  LET n == Len(b) - i + 1 IN
  IF n <= 0 THEN << >>
  ELSE IF n = 1 THEN
    << b[i] \div 4, (b[i] % 4) * 16, PadChar, PadChar >>
  ELSE IF n = 2 THEN
    << b[i] \div 4, (b[i] % 4) * 16 + (b[i + 1] \div 16),
       (b[i + 1] % 16) * 4, PadChar >>
  ELSE
    << b[i] \div 4, (b[i] % 4) * 16 + (b[i + 1] \div 16),
       (b[i + 1] % 16) * 4 + (b[i + 2] \div 64), b[i + 2] % 64 >>
    \o btoaFrom(b, i + 3)

btoa(binary) == btoaFrom(binary, 1)

StripWs(s) == SelectSeq(s, LAMBDA c : c # WsChar)

\* Forgiving-base64: when the length is a multiple of four, one or two
\* trailing '=' are removed.
StripPad(s) ==
  LET n == Len(s) IN
  IF n > 0 /\ n % 4 = 0 /\ s[n] = PadChar
  THEN IF s[n - 1] = PadChar THEN SubSeq(s, 1, n - 2) ELSE SubSeq(s, 1, n - 1)
  ELSE s

RECURSIVE atobFrom(_, _)
\* Decoding of the sextets s[i..]: four sextets give three bytes; two left
\* over give one byte (four bits dropped), three give two (two bits dropped).
atobFrom(s, i) ==
  LET n == Len(s) - i + 1 IN
  IF n <= 0 THEN << >>
  ELSE IF n = 2 THEN << s[i] * 4 + (s[i + 1] \div 16) >>
  ELSE IF n = 3 THEN
    << s[i] * 4 + (s[i + 1] \div 16),
       (s[i + 1] % 16) * 16 + (s[i + 2] \div 4) >>
  ELSE
    << s[i] * 4 + (s[i + 1] \div 16),
       (s[i + 1] % 16) * 16 + (s[i + 2] \div 4),
       (s[i + 2] % 4) * 64 + s[i + 3] >>
    \o atobFrom(s, i + 4)

\* atob: [ok |-> TRUE, bytes |-> ...], or ok = FALSE where the browser
\* throws InvalidCharacterError.
atob(base64) ==
  LET data == StripPad(StripWs(base64)) IN
  IF Len(data) % 4 = 1 \/ \E k \in 1 .. Len(data) : data[k] \notin 0 .. 63
  THEN [ok |-> FALSE, bytes |-> << >>]
  ELSE [ok |-> TRUE, bytes |-> atobFrom(data, 1)]

\* Mutant of decode: the copying loop stops one character early.
decodeOffByOne(base64) ==
  IF base64 = << >> THEN [ok |-> TRUE, bytes |-> << >>]
  ELSE LET r == atob(base64)
       IN  [ok |-> r.ok, bytes |-> SubSeq(r.bytes, 1, Len(r.bytes) - 1)]

\* utils/audio decode: the empty string is falsy and gives no bytes; any
\* other text goes through atob, whose exception propagates.
decode(base64) ==
  IF base64 = << >> THEN [ok |-> TRUE, bytes |-> << >>] ELSE atob(base64)

\* utils/audio encode: String.fromCharCode per byte, then btoa.
encode(bytes) == btoa(bytes)

RECURSIVE Concat(_)
Concat(arrs) == IF arrs = << >> THEN << >> ELSE Head(arrs) \o Concat(Tail(arrs))

\* One chunk of combineBase64Chunks: the try/catch turns a failed atob into
\* an empty Uint8Array.
chunkBytes(base64) ==
  LET r == atob(base64) IN IF r.ok THEN r.bytes ELSE << >>

\* Mutant of combineBase64Chunks: the base64 texts are joined as texts.
combineJoined(chunks) == Concat(chunks)

\* Mutant of combineBase64Chunks: one chunk that fails to decode makes the
\* whole combination fail (no try/catch around atob), and nothing is kept.
combineAborts(chunks) ==
  IF Len(chunks) = 0 \/ \E k \in 1 .. Len(chunks) : ~atob(chunks[k]).ok
  THEN << >>
  ELSE btoa(Concat([k \in 1 .. Len(chunks) |-> chunkBytes(chunks[k])]))

combineBase64Chunks(chunks) ==
  IF Len(chunks) = 0 THEN << >>
  ELSE btoa(Concat([k \in 1 .. Len(chunks) |-> chunkBytes(chunks[k])]))

\* ------------------------------------------------------------ WAV / PCM
u32le(v) == << v % 256, (v \div 256) % 256, (v \div 65536) % 256,
               (v \div 16777216) % 256 >>

u16le(v) == << v % 256, (v \div 256) % 256 >>

\* ASCII codes of the four-character tags.
TagRIFF == << 82, 73, 70, 70 >>
TagWAVE == << 87, 65, 86, 69 >>
TagFmt == << 102, 109, 116, 32 >>
TagData == << 100, 97, 116, 97 >>

\* Mutant of pcmToWav: the RIFF length field holds the length of the file.
pcmToWavFileLength(pcmData, sampleRate) ==
  TagRIFF \o u32le(44 + Len(pcmData)) \o TagWAVE \o TagFmt \o u32le(16)
  \o u16le(1) \o u16le(1) \o u32le(sampleRate) \o u32le(sampleRate * 2)
  \o u16le(2) \o u16le(16) \o TagData \o u32le(Len(pcmData)) \o pcmData

pcmToWav(pcmData, sampleRate) ==
  TagRIFF \o u32le(36 + Len(pcmData)) \o TagWAVE \o TagFmt \o u32le(16)
  \o u16le(1) \o u16le(1) \o u32le(sampleRate) \o u32le(sampleRate * 2)
  \o u16le(2) \o u16le(16) \o TagData \o u32le(Len(pcmData)) \o pcmData

OutputSampleRate == 24000

\* Two's-complement 16-bit sample from its little-endian bytes.
int16le(lo, hi) ==
  LET v == lo + 256 * hi IN IF v >= 32768 THEN v - 65536 ELSE v

\* utils/audio decodeAudioData.  Samples are kept as their 16-bit integers
\* (the code stores sample / 32768.0).  frameCount is the unrounded quotient
\* dataInt16.length / numChannels; createBuffer takes its length as an
\* unsigned long (the fraction is dropped) and throws NotSupportedError for
\* a length of 0: ok = FALSE.  Writes past the buffer's length are ignored.
decodeAudioData(data, numChannels) ==
  LET silent == [ok |-> TRUE, length |-> 1,
                 channelData |-> [c \in 1 .. numChannels |-> << 0 >>]]
      alignedLength == (Len(data) \div 2) * 2
      nInt16 == alignedLength \div 2
      dataInt16 == [k \in 1 .. nInt16 |->
                      int16le(data[2 * k - 1], data[2 * k])]
      length == nInt16 \div numChannels
  IN  IF Len(data) = 0 THEN silent
      ELSE IF nInt16 <= 0 THEN silent
      ELSE IF length = 0
        THEN [ok |-> FALSE, length |-> 0,
              channelData |-> [c \in 1 .. numChannels |-> << >>]]
      ELSE [ok |-> TRUE, length |-> length,
            channelData |-> [c \in 1 .. numChannels |->
               [i \in 1 .. length |-> dataInt16[(i - 1) * numChannels + c]]]]

\* ------------------------------------------------- fileToPcm16k quantizer
\* A float sample is a multiple of 1 / SampleDen, given by its numerator,
\* or NaN.
SampleDen == 8

NaN == [nan |-> TRUE, num |-> 0]

Num(n) == [nan |-> FALSE, num |-> n]

\* The integer part of a / b (b > 0), rounded toward zero.
TruncDiv(a, b) == IF a >= 0 THEN a \div b ELSE -((-a) \div b)

\* Storing a number in an Int16Array: the fraction is dropped and the
\* integer is reduced modulo 2^16 into -32768 .. 32767.
ToInt16(v) ==
  LET m == v % 65536 IN IF m >= 32768 THEN m - 65536 ELSE m

\* Mutant of quantize: one scale, 0x8000, for both signs.
quantizeSymmetric(sample) ==
  IF sample.nan THEN 0
  ELSE LET lower == IF sample.num < SampleDen THEN sample.num ELSE SampleDen
           s == IF lower > -SampleDen THEN lower ELSE -SampleDen
       IN  ToInt16(TruncDiv(s * 32768, SampleDen))

\* s = Math.max(-1, Math.min(1, floatData[i]));
\* int16Data[i] = s < 0 ? s * 0x8000 : s * 0x7FFF.
\* With NaN both Math.min and Math.max give NaN, NaN < 0 is false, and NaN
\* is stored as 0.
quantize(sample) ==
  IF sample.nan THEN 0
  ELSE LET lower == IF sample.num < SampleDen THEN sample.num ELSE SampleDen
           s == IF lower > -SampleDen THEN lower ELSE -SampleDen
       IN  ToInt16(TruncDiv(IF s < 0 THEN s * 32768 ELSE s * 32767,
                            SampleDen))

int16Data(floatData) ==
  [i \in 1 .. Len(floatData) |-> quantize(floatData[i])]

\* new Uint8Array(int16Data.buffer): two bytes per sample, low byte first.
int16Bytes(samples) ==
  Concat([i \in 1 .. Len(samples) |-> u16le(samples[i] % 65536)])

\* fileToPcm16k from the resampled channel data on.
fileToPcm16k(floatData) == encode(int16Bytes(int16Data(floatData)))

\* ------------------------------------------------------------------ text
\* A text is a sequence of characters; " " stands for any whitespace and
\* "x" for any other character.
Chars == {" ", "x"}

RECURSIVE trimStart(_)
trimStart(t) ==
  IF t # << >> /\ Head(t) = " " THEN trimStart(Tail(t)) ELSE t

RECURSIVE trimEnd(_)
trimEnd(t) ==
  IF t # << >> /\ t[Len(t)] = " " THEN trimEnd(SubSeq(t, 1, Len(t) - 1)) ELSE t

trim(t) == trimEnd(trimStart(t))

\* --------------------------------------------------------------- inputs
\* Audio chunks the service may stream: base64 of one byte and of two bytes.
AudioChunkPool == { btoa(<< 1 >>), btoa(<< 2, 3 >>) }

\* part.inlineData?.data and part.text; the empty sequence stands for an
\* absent or empty (falsy) field.
Parts == [data : AudioChunkPool \cup {<< >>}, text : {<< >>, << " " >>, << "x" >>}]

RECURSIVE SeqsUpTo(_, _)
SeqsUpTo(S, n) ==
  IF n = 0 THEN {<< >>}
  ELSE LET shorter == SeqsUpTo(S, n - 1)
       IN  shorter \cup {Append(q, e) : q \in shorter, e \in S}

Messages == [parts : SeqsUpTo(Parts, MaxParts), turnComplete : BOOLEAN]

\* Playback rates of the slider (min 0.5, max 2.0), in hundredths.
Rates == {50, 100, 200}

DefaultRate == 100

\* --------------------------------------------------------------- errors
NoError == [msg |-> "", text |-> << >>]

Err(m, t) == [msg |-> m, text |-> t]

FallbackError ==
  Err("An unexpected error occurred. Try a shorter, clearer audio clip.", << >>)

\* err.message || fallback
MessageOrFallback(e) == IF e.msg = "" THEN FallbackError ELSE e

\* Rejections fileToPcm16k can produce: the browser's decode error, with or
\* without a message.
TranscodeErrors == { Err("", << >>), Err("EncodingError", << >>) }

\* -------------------------------------------------------------- promise
Pending == [state |-> "pending", value |-> << >>, reason |-> NoError]

\* resolve / reject of a Promise: only the first call settles it.
resolve(p, v) ==
  IF p.state = "pending"
  THEN [state |-> "fulfilled", value |-> v, reason |-> NoError] ELSE p

reject(p, e) ==
  IF p.state = "pending"
  THEN [state |-> "rejected", value |-> << >>, reason |-> e] ELSE p

\* ---------------------------------------------------------------- state
VARIABLES
  \* generateSpeech: the closure of the current exchange
  accumulatedAudioChunks, accumulatedText, isResolved, hasReceivedAudio,
  promise,        \* the promise generateSpeech returned
  settleCalls,    \* history: calls of resolve / reject made by the handlers
  decidedBy,      \* history: the event whose handler settled the promise
  timer,          \* the 60 s setTimeout: "none", "armed", "fired"
  conn,           \* the live connection: "none", "open", "closed"
  \* App
  referenceFile, isLoading, isPlaying, error, generatedWavBlob, playbackRate,
  audioContextRef, currentSourceRef,
  sources,        \* every AudioBufferSourceNode created, in creation order
  pc,             \* where handleGenerateAndPlay is suspended
  audioData,      \* handleGenerateAndPlay's local across await ctx.resume()
  \* the helper functions on their own
  call            \* a function with its arguments and the value it returned

exVars == << accumulatedAudioChunks, accumulatedText, isResolved,
             hasReceivedAudio, promise, settleCalls, decidedBy, timer, conn >>

appVars == << referenceFile, isLoading, isPlaying, error, generatedWavBlob,
              playbackRate, audioContextRef, currentSourceRef, sources, pc,
              audioData >>

vars == << exVars, appVars, call >>

\* No helper function is called on its own.
NoCall == [fn |-> "none"]

NoBlob == << >>

\* currentSourceRef.current = null
NoSource == 0

Init ==
  /\ accumulatedAudioChunks = << >>
  /\ accumulatedText = << >>
  /\ isResolved = FALSE
  /\ hasReceivedAudio = FALSE
  /\ promise = Pending
  /\ settleCalls = 0
  /\ decidedBy = "none"
  /\ timer = "none"
  /\ conn = "none"
  /\ referenceFile = "null"
  /\ isLoading = FALSE
  /\ isPlaying = FALSE
  /\ error = NoError
  /\ generatedWavBlob = NoBlob
  /\ playbackRate = DefaultRate
  /\ audioContextRef = "null"
  /\ currentSourceRef = NoSource
  /\ sources = << >>
  /\ pc = "idle"
  /\ audioData = << >>
  /\ call = NoCall

\* The continuation of `await generateSpeech(...)` is a microtask: once the
\* promise is settled it runs before any other event handler.
NoMicrotask == ~(pc = "streaming" /\ promise.state # "pending")

\* ------------------------------------------------- generateSpeech handlers
\* The chunks and the text one message appends, part by part.
AudioOf(parts) ==
  LET withData == SelectSeq(parts, LAMBDA part : part.data # << >>)
  IN  [k \in 1 .. Len(withData) |-> withData[k].data]

TextOf(parts) == Concat([k \in 1 .. Len(parts) |-> parts[k].text])

Settle(p, by) ==
  /\ isResolved' = TRUE
  /\ promise' = p
  /\ settleCalls' = settleCalls + 1
  /\ decidedBy' = IF promise.state = "pending" THEN by ELSE decidedBy

NoSettle == UNCHANGED << isResolved, promise, settleCalls, decidedBy >>

\* Mutant of OnMessage: at turn-complete the text is looked at before the
\* audio.
OnMessageTextFirst(message) ==
  /\ conn # "none"
  /\ NoMicrotask
  /\ Len(accumulatedAudioChunks) + Len(AudioOf(message.parts)) <= MaxChunks
  /\ Len(accumulatedText) + Len(TextOf(message.parts)) <= MaxText
  /\ accumulatedAudioChunks' = accumulatedAudioChunks \o AudioOf(message.parts)
  /\ hasReceivedAudio' = (hasReceivedAudio \/ AudioOf(message.parts) # << >>)
  /\ accumulatedText' = accumulatedText \o TextOf(message.parts)
  /\ IF message.turnComplete /\ ~isResolved
     THEN IF Len(trim(accumulatedText')) > 0
          THEN Settle(reject(promise,
                        Err("Vocal Replication Error", accumulatedText')),
                      "turnComplete")
          ELSE IF hasReceivedAudio'
          THEN Settle(resolve(promise,
                        combineBase64Chunks(accumulatedAudioChunks')),
                      "turnComplete")
          ELSE NoSettle
     ELSE NoSettle
  /\ UNCHANGED << timer, conn, appVars, call >>

OnMessage(message) ==
  /\ conn # "none"
  /\ NoMicrotask
  /\ Len(accumulatedAudioChunks) + Len(AudioOf(message.parts)) <= MaxChunks
  /\ Len(accumulatedText) + Len(TextOf(message.parts)) <= MaxText
  /\ accumulatedAudioChunks' = accumulatedAudioChunks \o AudioOf(message.parts)
  /\ hasReceivedAudio' = (hasReceivedAudio \/ AudioOf(message.parts) # << >>)
  /\ accumulatedText' = accumulatedText \o TextOf(message.parts)
  /\ IF message.turnComplete /\ ~isResolved
     THEN IF hasReceivedAudio'
          THEN Settle(resolve(promise,
                        combineBase64Chunks(accumulatedAudioChunks')),
                      "turnComplete")
          ELSE IF Len(trim(accumulatedText')) > 0
          THEN Settle(reject(promise,
                        Err("Vocal Replication Error", accumulatedText')),
                      "turnComplete")
          ELSE NoSettle
     ELSE NoSettle
  /\ UNCHANGED << timer, conn, appVars, call >>

\* Mutant of OnError: the isResolved guard is missing.
OnErrorUnguarded ==
  /\ conn = "open"
  /\ NoMicrotask
  /\ Settle(reject(promise, Err("API Error", << >>)), "error")
  /\ UNCHANGED << accumulatedAudioChunks, accumulatedText, hasReceivedAudio,
                  timer, conn, appVars, call >>

\* Mutant of OnError: accumulated audio is delivered, as onclose does.
OnErrorPartial ==
  /\ conn = "open"
  /\ NoMicrotask
  /\ IF ~isResolved
     THEN IF Len(accumulatedAudioChunks) > 0
          THEN Settle(resolve(promise,
                        combineBase64Chunks(accumulatedAudioChunks)), "error")
          ELSE Settle(reject(promise, Err("API Error", << >>)), "error")
     ELSE NoSettle
  /\ UNCHANGED << accumulatedAudioChunks, accumulatedText, hasReceivedAudio,
                  timer, conn, appVars, call >>

OnError ==
  /\ conn = "open"
  /\ NoMicrotask
  /\ IF ~isResolved
     THEN Settle(reject(promise, Err("API Error", << >>)), "error")
     ELSE NoSettle
  /\ UNCHANGED << accumulatedAudioChunks, accumulatedText, hasReceivedAudio,
                  timer, conn, appVars, call >>

\* Mutant of OnClose: a close is always a failure.
OnCloseRejects ==
  /\ conn = "open"
  /\ NoMicrotask
  /\ conn' = "closed"
  /\ IF ~isResolved
     THEN Settle(reject(promise,
                   Err("Vocal clone session closed prematurely.", << >>)),
                 "close")
     ELSE NoSettle
  /\ UNCHANGED << accumulatedAudioChunks, accumulatedText, hasReceivedAudio,
                  timer, appVars, call >>

OnClose ==
  /\ conn = "open"
  /\ NoMicrotask
  /\ conn' = "closed"
  /\ IF ~isResolved
     THEN IF Len(accumulatedAudioChunks) > 0
          THEN Settle(resolve(promise,
                        combineBase64Chunks(accumulatedAudioChunks)), "close")
          ELSE Settle(reject(promise,
                        Err("Vocal clone session closed prematurely.", << >>)),
                      "close")
     ELSE NoSettle
  /\ UNCHANGED << accumulatedAudioChunks, accumulatedText, hasReceivedAudio,
                  timer, appVars, call >>

\* Mutant of Timeout: the branch for an exchange without audio is missing.
TimeoutOnlyAudio ==
  /\ timer = "armed"
  /\ NoMicrotask
  /\ timer' = "fired"
  /\ IF ~isResolved /\ Len(accumulatedAudioChunks) > 0
     THEN Settle(resolve(promise,
                   combineBase64Chunks(accumulatedAudioChunks)), "timeout")
     ELSE NoSettle
  /\ UNCHANGED << accumulatedAudioChunks, accumulatedText, hasReceivedAudio,
                  conn, appVars, call >>

\* Mutant of Timeout: a timeout is always a failure.
TimeoutRejects ==
  /\ timer = "armed"
  /\ NoMicrotask
  /\ timer' = "fired"
  /\ IF ~isResolved
     THEN Settle(reject(promise, Err("Vocal cloning timeout.", << >>)),
                 "timeout")
     ELSE NoSettle
  /\ UNCHANGED << accumulatedAudioChunks, accumulatedText, hasReceivedAudio,
                  conn, appVars, call >>

Timeout ==
  /\ timer = "armed"
  /\ NoMicrotask
  /\ timer' = "fired"
  /\ IF ~isResolved
     THEN IF Len(accumulatedAudioChunks) > 0
          THEN Settle(resolve(promise,
                        combineBase64Chunks(accumulatedAudioChunks)), "timeout")
          ELSE Settle(reject(promise,
                        IF accumulatedText # << >>
                        THEN Err("Vocal cloning failed", accumulatedText)
                        ELSE Err("Vocal cloning timeout.", << >>)),
                      "timeout")
     ELSE NoSettle
  /\ UNCHANGED << accumulatedAudioChunks, accumulatedText, hasReceivedAudio,
                  conn, appVars, call >>

\* ---------------------------------------------------------------- App
\* A source is "playing" from start() until it is stopped or runs out; the
\* audio thread then queues its ended event ("stopped" / "finished"), and
\* the source is "ended" once its onended handler has run.
Active(i) == sources[i].state = "playing"

EndedPending(i) == sources[i].state \in {"stopped", "finished"}

\* source.stop(): halts a playing source; on a source that already ran out
\* it does nothing (an exception would be swallowed by the try/catch).
stopSource(srcs, i) ==
  [srcs EXCEPT ![i].state = IF @ = "playing" THEN "stopped" ELSE @]

\* Mutant of stopPlayback: the flag is toggled instead of cleared.
stopPlaybackToggles(ref, srcs, playing) ==
  IF ref # NoSource
  THEN [ref |-> NoSource, sources |-> stopSource(srcs, ref), isPlaying |-> FALSE]
  ELSE [ref |-> ref, sources |-> srcs, isPlaying |-> ~playing]

\* stopPlayback, as the values it leaves in currentSourceRef.current, the
\* sources and isPlaying.
stopPlayback(ref, srcs, playing) ==
  IF ref # NoSource
  THEN [ref |-> NoSource, sources |-> stopSource(srcs, ref), isPlaying |-> FALSE]
  ELSE [ref |-> ref, sources |-> srcs, isPlaying |-> FALSE]

StopPlaybackStep ==
  LET r == stopPlayback(currentSourceRef, sources, isPlaying) IN
  /\ currentSourceRef' = r.ref
  /\ sources' = r.sources
  /\ isPlaying' = r.isPlaying

HandleFileChange ==
  /\ NoMicrotask
  /\ referenceFile' = "file"
  /\ error' = NoError
  /\ generatedWavBlob' = NoBlob
  /\ UNCHANGED << call, exVars, isLoading, isPlaying, playbackRate, audioContextRef,
                  currentSourceRef, sources, pc, audioData >>

\* The Stop button is rendered when generatedWavBlob && !isLoading && isPlaying.
StopClick ==
  /\ NoMicrotask
  /\ generatedWavBlob # NoBlob /\ ~isLoading /\ isPlaying
  /\ StopPlaybackStep
  /\ UNCHANGED << call, exVars, referenceFile, isLoading, error, generatedWavBlob,
                  playbackRate, audioContextRef, pc, audioData >>

\* The slider is rendered when generatedWavBlob && !isLoading; the effect on
\* [playbackRate] runs with the re-render the change causes.
SetPlaybackRate(rate) ==
  /\ NoMicrotask
  /\ generatedWavBlob # NoBlob /\ ~isLoading
  /\ rate # playbackRate
  /\ playbackRate' = rate
  /\ sources' = IF currentSourceRef # NoSource
                THEN [sources EXCEPT ![currentSourceRef].rate = rate]
                ELSE sources
  /\ UNCHANGED << call, exVars, referenceFile, isLoading, isPlaying, error,
                  generatedWavBlob, audioContextRef, currentSourceRef, pc,
                  audioData >>

\* Mutant of GenerateEnabled: the button is not disabled while loading.
GenerateEnabledWhileLoading == referenceFile # "null"

\* The Generate & Play button: disabled={isLoading || !referenceFile}.
GenerateEnabled == ~isLoading /\ referenceFile # "null"

\* handleGenerateAndPlay, up to `await fileToPcm16k(referenceFile)` inside
\* generateSpeech.  At most MaxSources requests are explored.
GenerateClick ==
  /\ NoMicrotask
  /\ GenerateEnabled
  /\ Len(sources) < MaxSources
  /\ isLoading' = TRUE
  /\ error' = NoError
  /\ generatedWavBlob' = NoBlob
  /\ StopPlaybackStep
  /\ pc' = "transcoding"
  /\ UNCHANGED << call, exVars, referenceFile, playbackRate, audioContextRef,
                  audioData >>

\* catch (err) { setError(err.message || ...) } finally { setIsLoading(false) }
Caught(e) ==
  /\ error' = MessageOrFallback(e)
  /\ isLoading' = FALSE
  /\ pc' = "idle"
  /\ audioData' = << >>

\* Mutant of TranscodeFail: the connection is requested and the timeout
\* armed before the reference audio is transcoded.
TranscodeFailAfterConnect(e) ==
  /\ pc = "transcoding"
  /\ Caught(e)
  /\ timer' = "armed"
  /\ conn' = "open"
  /\ UNCHANGED << accumulatedAudioChunks, accumulatedText, isResolved,
                  hasReceivedAudio, promise, settleCalls, decidedBy,
                  referenceFile, isPlaying, generatedWavBlob, playbackRate,
                  audioContextRef, currentSourceRef, sources, call >>

\* fileToPcm16k rejects: generateSpeech rejects before its Promise is built.
TranscodeFail(e) ==
  /\ pc = "transcoding"
  /\ Caught(e)
  /\ UNCHANGED << call, exVars, referenceFile, isPlaying, generatedWavBlob,
                  playbackRate, audioContextRef, currentSourceRef, sources >>

\* fileToPcm16k resolves: the Promise executor runs (a fresh closure, the
\* connection is requested, the safety timeout is armed).
TranscodeDone ==
  /\ pc = "transcoding"
  /\ accumulatedAudioChunks' = << >>
  /\ accumulatedText' = << >>
  /\ isResolved' = FALSE
  /\ hasReceivedAudio' = FALSE
  /\ promise' = Pending
  /\ settleCalls' = 0
  /\ decidedBy' = "none"
  /\ timer' = "armed"
  /\ conn' = "open"
  /\ pc' = "streaming"
  /\ UNCHANGED << referenceFile, isLoading, isPlaying, error, generatedWavBlob,
                  playbackRate, audioContextRef, currentSourceRef, sources,
                  audioData, call >>

\* decodeAudioData, createBufferSource, start(), setIsPlaying(true), finally.
StartSource(data) ==
  LET audioBuffer == decodeAudioData(data, 1) IN
  IF audioBuffer.ok
  THEN /\ sources' = Append(sources, [state |-> "playing", rate |-> playbackRate,
                                     length |-> audioBuffer.length])
       /\ currentSourceRef' = Len(sources) + 1
       /\ isPlaying' = TRUE
       /\ isLoading' = FALSE
       /\ pc' = "idle"
       /\ audioData' = << >>
       /\ UNCHANGED error
  ELSE /\ Caught(Err("NotSupportedError", << >>))
       /\ UNCHANGED << sources, currentSourceRef, isPlaying >>

\* The continuation of `await generateSpeech(...)`, up to the next await
\* that waits for an event (ctx.resume()) or to the end of the handler.
Continue(suspended) ==
  /\ pc = "streaming"
  /\ promise.state # "pending"
  /\ IF promise.state = "rejected"
     THEN /\ Caught(promise.reason)
          /\ UNCHANGED << generatedWavBlob, audioContextRef, currentSourceRef,
                          sources, isPlaying >>
     ELSE LET decoded == decode(promise.value) IN
          IF ~decoded.ok
          THEN /\ Caught(Err("InvalidCharacterError", << >>))
               /\ UNCHANGED << generatedWavBlob, audioContextRef,
                               currentSourceRef, sources, isPlaying >>
          ELSE /\ generatedWavBlob' = pcmToWav(decoded.bytes, OutputSampleRate)
               /\ audioContextRef' = "ctx"
               /\ IF suspended
                  THEN /\ pc' = "resuming"
                       /\ audioData' = decoded.bytes
                       /\ UNCHANGED << isLoading, error, currentSourceRef,
                                       sources, isPlaying >>
                  ELSE StartSource(decoded.bytes)
  /\ UNCHANGED << call, exVars, referenceFile, playbackRate >>

\* ctx.resume() resolved.
Resumed ==
  /\ pc = "resuming"
  /\ StartSource(audioData)
  /\ UNCHANGED << call, exVars, referenceFile, generatedWavBlob, playbackRate,
                  audioContextRef >>

\* The audio thread reaches the end of source i's buffer.
Finish(i) ==
  /\ NoMicrotask
  /\ Active(i)
  /\ sources' = [sources EXCEPT ![i].state = "finished"]
  /\ UNCHANGED << call, exVars, referenceFile, isLoading, isPlaying, error,
                  generatedWavBlob, playbackRate, audioContextRef,
                  currentSourceRef, pc, audioData >>

\* Mutant of OnEnded: the handle is not cleared.
OnEndedKeepsHandle(i) ==
  /\ NoMicrotask
  /\ EndedPending(i)
  /\ sources' = [sources EXCEPT ![i].state = "ended"]
  /\ isPlaying' = FALSE
  /\ UNCHANGED << call, exVars, referenceFile, isLoading, error, generatedWavBlob,
                  playbackRate, audioContextRef, currentSourceRef, pc,
                  audioData >>

\* source.onended of source i.
OnEnded(i) ==
  /\ NoMicrotask
  /\ EndedPending(i)
  /\ sources' = [sources EXCEPT ![i].state = "ended"]
  /\ isPlaying' = FALSE
  /\ currentSourceRef' = NoSource
  /\ UNCHANGED << call, exVars, referenceFile, isLoading, error, generatedWavBlob,
                  playbackRate, audioContextRef, pc, audioData >>

\* The events of the exchange: messages, error, close and the timeout, in
\* any order.
ExchangeEvent ==
  \/ \E message \in Messages : OnMessage(message)
  \/ OnError
  \/ OnClose
  \/ Timeout

\* The messages the whole-application specification draws from: at most one
\* part, carrying the one-byte chunk and / or a non-blank text.
AppMessages ==
  { m \in Messages : /\ Len(m.parts) <= 1
                      /\ \A k \in 1 .. Len(m.parts) :
                           /\ m.parts[k].data \in {<< >>, btoa(<< 1 >>)}
                           /\ m.parts[k].text \in {<< >>, << "x" >>} }

AppExchangeEvent ==
  \/ \E message \in AppMessages : OnMessage(message)
  \/ OnError
  \/ OnClose
  \/ Timeout

\* The whole application.  Once the continuation of a settled exchange has
\* run, the later events of that exchange reach only its own closure, which
\* nothing reads any more; they are explored in ExchangeSpec.
Next ==
  \/ pc = "streaming" /\ AppExchangeEvent
  \/ HandleFileChange
  \/ StopClick
  \/ \E rate \in Rates : SetPlaybackRate(rate)
  \/ GenerateClick
  \/ \E e \in TranscodeErrors : TranscodeFail(e)
  \/ TranscodeDone
  \/ \E suspended \in BOOLEAN : Continue(suspended)
  \/ Resumed
  \/ \E i \in 1 .. Len(sources) : Finish(i)
  \/ \E i \in 1 .. Len(sources) : OnEnded(i)

Spec == Init /\ [][Next]_vars

\* One generateSpeech exchange, from the moment its Promise executor has run
\* for the first request (file chosen, Generate & Play clicked, transcoding
\* done), with every event order and the events that arrive after the
\* promise was settled and consumed.
ExchangeInit ==
  /\ accumulatedAudioChunks = << >>
  /\ accumulatedText = << >>
  /\ isResolved = FALSE
  /\ hasReceivedAudio = FALSE
  /\ promise = Pending
  /\ settleCalls = 0
  /\ decidedBy = "none"
  /\ timer = "armed"
  /\ conn = "open"
  /\ referenceFile = "file"
  /\ isLoading = TRUE
  /\ isPlaying = FALSE
  /\ error = NoError
  /\ generatedWavBlob = NoBlob
  /\ playbackRate = DefaultRate
  /\ audioContextRef = "null"
  /\ currentSourceRef = NoSource
  /\ sources = << >>
  /\ pc = "streaming"
  /\ audioData = << >>
  /\ call = NoCall

ExchangeNext ==
  \/ ExchangeEvent
  \/ \E suspended \in BOOLEAN : Continue(suspended)
  \/ Resumed

ExchangeSpec == ExchangeInit /\ [][ExchangeNext]_vars

\* setTimeout's callback runs once its delay has passed.
FairExchangeSpec == ExchangeSpec /\ WF_vars(Timeout)

\* ------------------------------------------- the helper functions alone
\* Byte values the arguments are built from: both ends of the range, both
\* sides of the sign bit of a sample's high byte, and the ASCII range.
ByteSamples == {0, 1, 127, 128, 255}

ByteSeqs == SeqsUpTo(ByteSamples, MaxBytes)

\* Texts on which atob throws: a length of 1 modulo 4, a character outside
\* the alphabet, and padding in the middle of the text.
CorruptChunks ==
  { << 0 >>, << 0, 16, BadChar, 0 >>, btoa(<< 1 >>) \o btoa(<< 1 >>) }

\* The chunks combineBase64Chunks is given: the encodings of byte sequences
\* (with the bytes they encode) and the corrupt texts.
ChunkInputs ==
  { [base64 |-> encode(b), bytes |-> b, valid |-> TRUE] :
      b \in SeqsUpTo({1, 254}, MaxChunkBytes) }
  \cup { [base64 |-> t, bytes |-> << >>, valid |-> FALSE] : t \in CorruptChunks }

SampleRates == {16000, 24000, 48000}

\* Samples from below -1 to above 1, and NaN.
Samples == { Num(n) : n \in -MaxSample .. MaxSample } \cup { NaN }

ChannelCounts == 1 .. MaxChannels

\* The arguments a helper function is called with.
CallInputs ==
  { [fn |-> "input", kind |-> "bytes", bytes |-> b] : b \in ByteSeqs }
  \cup { [fn |-> "input", kind |-> "chunks", chunks |-> cs] :
           cs \in SeqsUpTo(ChunkInputs, MaxChunks) }
  \cup { [fn |-> "input", kind |-> "samples", floatData |-> fd] :
           fd \in SeqsUpTo(Samples, MaxFrames) }

FunctionInit ==
  /\ accumulatedAudioChunks = << >>
  /\ accumulatedText = << >>
  /\ isResolved = FALSE
  /\ hasReceivedAudio = FALSE
  /\ promise = Pending
  /\ settleCalls = 0
  /\ decidedBy = "none"
  /\ timer = "none"
  /\ conn = "none"
  /\ referenceFile = "null"
  /\ isLoading = FALSE
  /\ isPlaying = FALSE
  /\ error = NoError
  /\ generatedWavBlob = NoBlob
  /\ playbackRate = DefaultRate
  /\ audioContextRef = "null"
  /\ currentSourceRef = NoSource
  /\ sources = << >>
  /\ pc = "idle"
  /\ audioData = << >>
  /\ call \in CallInputs

ApplyEncode ==
  /\ call.fn = "input" /\ call.kind = "bytes"
  /\ call' = [fn |-> "encode", bytes |-> call.bytes,
              result |-> encode(call.bytes)]
  /\ UNCHANGED << exVars, appVars >>

\* decode of the text encode returned.
ApplyDecode ==
  /\ call.fn = "encode"
  /\ call' = [fn |-> "decode", base64 |-> call.result, bytes |-> call.bytes,
              result |-> decode(call.result)]
  /\ UNCHANGED << exVars, appVars >>

ApplyCombineBase64Chunks ==
  /\ call.fn = "input" /\ call.kind = "chunks"
  /\ call' = [fn |-> "combineBase64Chunks", chunks |-> call.chunks,
              result |-> combineBase64Chunks(
                 [k \in 1 .. Len(call.chunks) |-> call.chunks[k].base64])]
  /\ UNCHANGED << exVars, appVars >>

ApplyPcmToWav(sampleRate) ==
  /\ call.fn = "input" /\ call.kind = "bytes"
  /\ call' = [fn |-> "pcmToWav", pcmData |-> call.bytes,
              sampleRate |-> sampleRate,
              result |-> pcmToWav(call.bytes, sampleRate)]
  /\ UNCHANGED << exVars, appVars >>

ApplyDecodeAudioData(numChannels) ==
  /\ call.fn = "input" /\ call.kind = "bytes"
  /\ call' = [fn |-> "decodeAudioData", data |-> call.bytes,
              numChannels |-> numChannels,
              result |-> decodeAudioData(call.bytes, numChannels)]
  /\ UNCHANGED << exVars, appVars >>

ApplyFileToPcm16k ==
  /\ call.fn = "input" /\ call.kind = "samples"
  /\ call' = [fn |-> "fileToPcm16k", floatData |-> call.floatData,
              int16Data |-> int16Data(call.floatData),
              result |-> fileToPcm16k(call.floatData)]
  /\ UNCHANGED << exVars, appVars >>

FunctionNext ==
  \/ ApplyEncode
  \/ ApplyDecode
  \/ ApplyCombineBase64Chunks
  \/ \E sampleRate \in SampleRates : ApplyPcmToWav(sampleRate)
  \/ \E numChannels \in ChannelCounts : ApplyDecodeAudioData(numChannels)
  \/ ApplyFileToPcm16k

\* Each helper function applied to each of its arguments.
FunctionSpec == FunctionInit /\ [][FunctionNext]_vars

\* ============================================================== claims
Settled == promise.state # "pending"

NonBlank(t) == \E k \in 1 .. Len(t) : t[k] # " "

\* C1: the promise of one exchange is settled at most once: the handlers
\* call resolve / reject at most once in total, and once an outcome is
\* decided no later message, error, close or timeout changes it.
C1_SettledAtMostOnce ==
  /\ [](settleCalls <= 1)
  /\ [][Settled => promise' = promise]_vars

\* C1 witness: turn-complete decided the exchange, and the close and the
\* timeout arrived afterwards.
C1_Witness ==
  /\ decidedBy = "turnComplete"
  /\ settleCalls = 1
  /\ conn = "closed"
  /\ timer = "fired"

\* C2: an exchange that was opened is eventually settled, and the timeout,
\* when it fires on an undecided exchange, settles it.
C2_EventuallySettled ==
  /\ (conn # "none" /\ ~Settled) ~> Settled
  /\ [][(timer = "armed" /\ timer' = "fired" /\ ~Settled) => Settled']_vars

\* C2 witness: the timeout decided an exchange no other event had decided.
C2_Witness ==
  /\ decidedBy = "timeout"
  /\ conn = "open"

\* C3: a close on an undecided exchange resolves it with the combination of
\* the chunks received so far, in receipt order, when there is at least one
\* chunk, and rejects it when there is none.
C3_CloseDecides ==
  [][(conn = "open" /\ conn' = "closed" /\ ~Settled) =>
       IF Len(accumulatedAudioChunks) > 0
       THEN /\ promise'.state = "fulfilled"
            /\ promise'.value = combineBase64Chunks(accumulatedAudioChunks)
            /\ atob(promise'.value).bytes =
                 Concat([k \in 1 .. Len(accumulatedAudioChunks) |->
                           atob(accumulatedAudioChunks[k]).bytes])
       ELSE promise'.state = "rejected"]_vars

\* C3 witness: a close decided the exchange after two different chunks.
C3_Witness ==
  /\ decidedBy = "close"
  /\ promise.state = "fulfilled"
  /\ pc = "streaming"
  /\ Len(accumulatedAudioChunks) = 2
  /\ accumulatedAudioChunks[1] # accumulatedAudioChunks[2]

\* C4: the timeout on an undecided exchange resolves it with the combined
\* audio when at least one chunk was received, and rejects it only when
\* none was.
C4_TimeoutDecides ==
  [][(timer = "armed" /\ timer' = "fired" /\ ~Settled) =>
       IF Len(accumulatedAudioChunks) > 0
       THEN /\ promise'.state = "fulfilled"
            /\ promise'.value = combineBase64Chunks(accumulatedAudioChunks)
       ELSE promise'.state = "rejected"]_vars

\* C4 witness: the timeout resolved an exchange that had audio and text.
C4_Witness ==
  /\ decidedBy = "timeout"
  /\ promise.state = "fulfilled"
  /\ pc = "streaming"
  /\ accumulatedText # << >>

\* The turn-complete message that appends what this step appended: a
\* handler's effect depends on a message only through the chunks and the
\* text of its parts and its turnComplete flag.
TurnCompleteOfStep ==
  LET newChunks == SubSeq(accumulatedAudioChunks',
                          Len(accumulatedAudioChunks) + 1,
                          Len(accumulatedAudioChunks'))
      newText == SubSeq(accumulatedText', Len(accumulatedText) + 1,
                        Len(accumulatedText'))
  IN  [parts |-> [k \in 1 .. Len(newChunks) |->
                     [data |-> newChunks[k], text |-> << >>]]
                 \o [k \in 1 .. Len(newText) |->
                     [data |-> << >>, text |-> << newText[k] >>]],
       turnComplete |-> TRUE]

\* C5: at a turn-complete on an undecided exchange audio wins over text:
\* with any audio received (this message's parts included) the exchange
\* resolves with the combined audio; it is rejected, with the accumulated
\* text, only when no audio was received and the text is not blank.
C5_AudioBeforeText ==
  [][(~Settled /\ OnMessage(TurnCompleteOfStep)) =>
       /\ accumulatedAudioChunks' # << >> =>
            /\ promise'.state = "fulfilled"
            /\ promise'.value = combineBase64Chunks(accumulatedAudioChunks')
       /\ promise'.state = "rejected" <=>
            (accumulatedAudioChunks' = << >> /\ NonBlank(accumulatedText'))
       /\ promise'.state = "rejected" =>
            promise'.reason.text = accumulatedText']_vars

\* C5 witness: turn-complete resolved an exchange that held audio and a
\* non-blank text.
C5_Witness ==
  /\ decidedBy = "turnComplete"
  /\ promise.state = "fulfilled"
  /\ pc = "streaming"
  /\ NonBlank(accumulatedText)

\* The event that settles an undecided exchange in this step.
DecidesBy(by) == ~Settled /\ Settled' /\ decidedBy' = by

\* C6 as stated: an error event, a close or a timeout on an undecided
\* exchange gives the accumulated audio when there is any, and a rejection
\* otherwise.
C6_Original ==
  [][(DecidesBy("error") \/ DecidesBy("close") \/ DecidesBy("timeout")) =>
       IF Len(accumulatedAudioChunks) > 0
       THEN promise'.state = "fulfilled"
       ELSE promise'.state = "rejected"]_vars

\* C6 as amended: a close or a timeout on an undecided exchange gives the
\* accumulated audio when there is any and a rejection otherwise; an error
\* event on an undecided exchange always gives a rejection ("API Error"),
\* also when audio was received.
C6_Amended ==
  [][/\ (DecidesBy("close") \/ DecidesBy("timeout")) =>
          IF Len(accumulatedAudioChunks) > 0
          THEN promise'.state = "fulfilled"
          ELSE promise'.state = "rejected"
     /\ DecidesBy("error") =>
          /\ promise'.state = "rejected"
          /\ promise'.reason.msg = "API Error"]_vars

\* C6 witness: an error event rejected an exchange that had received audio.
C6_Witness ==
  /\ decidedBy = "error"
  /\ promise.state = "rejected"
  /\ pc = "streaming"
  /\ accumulatedAudioChunks # << >>

ActiveSources == { i \in 1 .. Len(sources) : Active(i) }

\* C7: at most one started and not yet stopped or ended source exists.
C7_AtMostOneActive == Cardinality(ActiveSources) <= 1

\* C8: when a new source is started, every earlier source has been stopped
\* or has ended, the handle refers to the new source, and the new source
\* plays at the current rate.
C8_ReplacedBeforeStart ==
  [][Len(sources') = Len(sources) + 1 =>
       /\ ActiveSources = {}
       /\ currentSourceRef' = Len(sources')
       /\ sources'[Len(sources')].state = "playing"
       /\ sources'[Len(sources')].rate = playbackRate']_vars

\* C9: while a request is in flight the trigger is disabled, and no
\* Generate & Play click is handled before the previous request completed.
C9_OneRequestInFlight ==
  /\ [](pc # "idle" => (isLoading /\ ~GenerateEnabled))
  /\ [][GenerateClick => pc = "idle"]_vars

\* C9 witness: a request is in flight with a reference file chosen.
C9_Witness ==
  /\ pc = "streaming"
  /\ referenceFile # "null"
  /\ conn = "open"
  /\ ~Settled

Idle == currentSourceRef = NoSource /\ ~isPlaying

\* C10: stopPlayback in the Idle state changes nothing (the handle stays
\* empty, isPlaying stays false, no source changes), also when it runs as
\* part of Generate & Play; and stopping twice leaves what stopping once
\* leaves.
C10_StopIdleNoOp ==
  /\ [](LET once == stopPlayback(currentSourceRef, sources, isPlaying)
            twice == stopPlayback(once.ref, once.sources, once.isPlaying)
        IN  /\ twice = once
            /\ Idle => once = [ref |-> NoSource, sources |-> sources,
                               isPlaying |-> FALSE])
  /\ [][(GenerateClick /\ Idle) =>
          UNCHANGED << currentSourceRef, sources, isPlaying >>]_vars

\* C10 witness: Generate & Play ran stopPlayback when no source had ever
\* been started.
C10_Witness ==
  /\ pc = "transcoding"
  /\ sources = << >>
  /\ Idle

\* C11: every playing source plays at the rate set last: a change of the
\* rate reaches the source that is playing, and a source started later is
\* given the rate that was set while nothing played.
C11_RateOfActive == \A i \in ActiveSources : sources[i].rate = playbackRate

\* A source whose buffer ran out while the handle referred to it.
FinishedCurrent(i) ==
  /\ i \in 1 .. Len(sources)
  /\ sources[i].state = "finished"
  /\ currentSourceRef = i

\* C12: when the source the handle refers to has played to its end, its
\* onended handler clears the handle and the playing flag and touches no
\* other source; from the Idle state it leaves, Generate & Play starts a
\* new source and never the one that ended.
C12_EndedReturnsToIdle ==
  [][/\ (FinishedCurrent(currentSourceRef) /\ OnEnded(currentSourceRef)) =>
          /\ Idle'
          /\ Len(sources') = Len(sources)
          /\ sources'[currentSourceRef].state = "ended"
     /\ \A i \in 1 .. Len(sources) :
          sources[i].state = "ended" => sources'[i] = sources[i]]_vars

\* C12 witness: the first source has ended, a later Generate & Play started
\* a second one, which played to its end while the handle referred to it,
\* and its onended handler is about to leave the Idle state.
C12_Witness ==
  /\ Len(sources) = 2
  /\ sources[1].state = "ended"
  /\ FinishedCurrent(2)
  /\ isPlaying
  /\ ENABLED (OnEnded(2) /\ Idle')

\* A step in which handleGenerateAndPlay ends in its catch block.
RequestFails == pc # "idle" /\ pc' = "idle" /\ Len(sources') = Len(sources)

\* C13: a failed request leaves one non-empty error message, the busy
\* flag cleared and no source playing, and it is not retried: nothing but
\* a Generate & Play click starts a request, and only a request that was
\* started by a click opens an exchange.
C13_FailureSurfaced ==
  [][/\ RequestFails =>
          /\ error' # NoError
          /\ error'.msg # ""
          /\ ~isLoading'
          /\ Idle'
          /\ ActiveSources' = {}
     /\ (pc = "idle" /\ pc' # "idle") => GenerateClick
     /\ (pc # "streaming" /\ pc' = "streaming") => pc = "transcoding"]_vars

\* C14: when fileToPcm16k fails, the request ends before its exchange
\* exists: no closure, promise, connection or timer is created, and the
\* failure is shown as the error.
C14_TranscodeFailureAborts ==
  [][(pc = "transcoding" /\ pc' = "idle") =>
       /\ UNCHANGED exVars
       /\ error' # NoError
       /\ \E e \in TranscodeErrors : error' = MessageOrFallback(e)
       /\ ~isLoading']_vars

\* C14 witness: the first request failed in transcoding; no exchange was
\* ever opened and no timer armed.
C14_Witness ==
  /\ error # NoError
  /\ pc = "idle"
  /\ ~isLoading
  /\ conn = "none"
  /\ timer = "none"
  /\ promise = Pending

\* C15: decode gives back the bytes encode was given, for every byte
\* sequence; the empty sequence encodes to the empty text, which decodes
\* to no bytes.
C15_DecodeEncode ==
  call.fn = "decode" =>
    /\ call.result.ok
    /\ call.result.bytes = call.bytes
    /\ call.bytes = << >> => call.base64 = << >>

\* C15 witness: four bytes with the values 255, 0, 128 and 1 went through
\* encode (eight characters, the last group padded) and decode.
C15_Witness ==
  /\ call.fn = "decode"
  /\ call.result.bytes = << 255, 0, 128, 1 >>
  /\ Len(call.base64) = 8

\* The chunks of a combineBase64Chunks call that decode.
ValidChunks(chunks) == SelectSeq(chunks, LAMBDA chunk : chunk.valid)

BytesOf(chunks) == Concat([k \in 1 .. Len(chunks) |-> chunks[k].bytes])

\* C16: the combination of the encodings of b1 .. bn decodes to b1 .. bn
\* in this order, and the combination of no chunks is the empty text.
C16_CombineConcatenates ==
  (call.fn = "combineBase64Chunks" /\ ValidChunks(call.chunks) = call.chunks) =>
    /\ decode(call.result) = [ok |-> TRUE, bytes |-> BytesOf(call.chunks)]
    /\ call.chunks = << >> => call.result = << >>

\* C16 witness: two different non-empty chunks, neither a multiple of three
\* bytes long, were combined.
C16_Witness ==
  /\ call.fn = "combineBase64Chunks"
  /\ Len(call.chunks) = 2
  /\ call.chunks[1].bytes = << 1 >>
  /\ call.chunks[2].bytes = << 254, 1 >>
  /\ decode(call.result).bytes = << 1, 254, 1 >>

\* C17: a chunk on which atob throws counts as no bytes: the combination
\* is still made, and it is the combination of the other chunks.
C17_CorruptChunkSkipped ==
  (call.fn = "combineBase64Chunks" /\ ValidChunks(call.chunks) # call.chunks) =>
    /\ \A k \in 1 .. Len(call.chunks) :
         ~call.chunks[k].valid => ~atob(call.chunks[k].base64).ok
    /\ decode(call.result) =
         [ok |-> TRUE, bytes |-> BytesOf(ValidChunks(call.chunks))]

\* C17 witness: a corrupt chunk came before a chunk that decodes.
C17_Witness ==
  /\ call.fn = "combineBase64Chunks"
  /\ Len(call.chunks) = 2
  /\ ~call.chunks[1].valid
  /\ call.chunks[2].bytes = << 254 >>
  /\ decode(call.result).bytes = << 254 >>

\* Little-endian fields of a byte sequence, by 0-based offset.
U32At(w, off) ==
  w[off + 1] + 256 * w[off + 2] + 65536 * w[off + 3] + 16777216 * w[off + 4]

U16At(w, off) == w[off + 1] + 256 * w[off + 2]

\* C18: pcmToWav gives the 44-byte header followed by the PCM bytes: RIFF
\* length 36 + len at offset 4, format PCM (1), one channel, the sample
\* rate, byte rate 2 * rate, block align 2, 16 bits per sample, and the
\* data length len at offset 40.
C18_WavLayout ==
  call.fn = "pcmToWav" =>
    LET w == call.result
        len == Len(call.pcmData)
        r == call.sampleRate
    IN  /\ Len(w) = 44 + len
        /\ SubSeq(w, 1, 4) = TagRIFF
        /\ U32At(w, 4) = 36 + len
        /\ SubSeq(w, 9, 12) = TagWAVE
        /\ SubSeq(w, 13, 16) = TagFmt
        /\ U32At(w, 16) = 16
        /\ U16At(w, 20) = 1
        /\ U16At(w, 22) = 1
        /\ U32At(w, 24) = r
        /\ U32At(w, 28) = 2 * r
        /\ U16At(w, 32) = 2
        /\ U16At(w, 34) = 16
        /\ SubSeq(w, 37, 40) = TagData
        /\ U32At(w, 40) = len
        /\ SubSeq(w, 45, Len(w)) = call.pcmData
        /\ \A k \in 1 .. Len(w) : w[k] \in Byte

\* C18 witness: a non-empty buffer was wrapped at the output rate.
C18_Witness ==
  /\ call.fn = "pcmToWav"
  /\ call.sampleRate = OutputSampleRate
  /\ call.pcmData = << 0, 128, 255, 127 >>
  /\ Len(call.result) = 48

\* C19: decodeAudioData gives floor(floor(len / 2) / channels) frames when
\* that is positive and one silent frame otherwise, never an empty buffer
\* and never an exception; frame i of channel c is sample i * channels + c.
C19_FrameCount ==
  call.fn = "decodeAudioData" =>
    LET samples == Len(call.data) \div 2
        frames == samples \div call.numChannels
        buffer == call.result
    IN  /\ buffer.ok
        /\ buffer.length >= 1
        /\ buffer.length = IF frames > 0 THEN frames ELSE 1
        /\ \A c \in 1 .. call.numChannels :
             /\ Len(buffer.channelData[c]) = buffer.length
             /\ \A i \in 1 .. buffer.length :
                  buffer.channelData[c][i] =
                    IF frames > 0
                    THEN LET k == (i - 1) * call.numChannels + c
                         IN  int16le(call.data[2 * k - 1], call.data[2 * k])
                    ELSE 0

\* C20: the PCM bytes that are used have an even length; here, the
\* payload of the WAV file that is kept for the download.
C20_EvenPcm ==
  generatedWavBlob # NoBlob => (Len(generatedWavBlob) - 44) % 2 = 0

\* C21: every quantized sample lies in -32768 .. 32767; samples of 1 and
\* above give 32767 and samples of -1 and below give -32768; between them
\* a negative sample s gives s * 32768 and any other s * 32767, the
\* fraction dropped; and a larger sample never gives a smaller result.
C21_QuantizerRange ==
  call.fn = "fileToPcm16k" =>
    LET fd == call.floatData
        q == call.int16Data
    IN  /\ Len(q) = Len(fd)
        /\ \A i \in 1 .. Len(fd) :
             /\ q[i] \in -32768 .. 32767
             /\ (~fd[i].nan /\ fd[i].num >= SampleDen) => q[i] = 32767
             /\ (~fd[i].nan /\ fd[i].num <= -SampleDen) => q[i] = -32768
             /\ (~fd[i].nan /\ fd[i].num \in 0 .. SampleDen) =>
                  /\ q[i] * SampleDen <= fd[i].num * 32767
                  /\ fd[i].num * 32767 < (q[i] + 1) * SampleDen
             /\ (~fd[i].nan /\ fd[i].num \in -SampleDen .. -1) =>
                  /\ (q[i] - 1) * SampleDen < fd[i].num * 32768
                  /\ fd[i].num * 32768 <= q[i] * SampleDen
        /\ \A i, j \in 1 .. Len(fd) :
             (~fd[i].nan /\ ~fd[j].nan /\ fd[i].num <= fd[j].num) =>
               q[i] <= q[j]
        /\ decode(call.result) = [ok |-> TRUE, bytes |-> int16Bytes(q)]

\* C21 witness: a sample above 1 and a sample below -1 were quantized to
\* the two ends of the 16-bit range.
C21_Witness ==
  /\ call.fn = "fileToPcm16k"
  /\ call.floatData = << Num(SampleDen + 1), Num(-SampleDen - 1) >>
  /\ call.int16Data = << 32767, -32768 >>

\* C22: a message with turnComplete that is handled while the exchange is
\* undecided leaves it decided, whatever was received.
C22_TurnCompleteTerminal ==
  [][(~Settled /\ OnMessage(TurnCompleteOfStep)) => Settled']_vars

\* C23: every playing source is the one the handle refers to, with the
\* playing flag set, so that stopPlayback halts it.
C23_HandleTracksActive ==
  \A i \in ActiveSources : currentSourceRef = i /\ isPlaying

====
